---- MODULE Spec2Model ----
(***************************************************************************)
(* State-machine model of mmOIShijacker.py: main() and its three stages    *)
(* harvest_credentials, fetch_data_with_credentials and                    *)
(* process_and_store_data.                                                 *)
(*                                                                         *)
(* A Python value is a record [t, k, s, items]: t its type tag, s its       *)
(* characters (a str) or what str() gives for it (an int or float), items  *)
(* its items (a list) or its values, each with its key in k (a dict);      *)
(* k is "" for a value that is not held under a dict key.                  *)
(* An epoch-millisecond timestamp exceeds 32 bits and is kept as two       *)
(* base-10^6 limbs <<hi, lo>>, i.e. hi * 10^6 + lo.                        *)
(***************************************************************************)
EXTENDS Integers, Sequences, FiniteSets, TLC

\* ------------------------------------------------------------ bounds
\* Most [date, value] entries a generated payload holds over all its series.
MaxPoints == 2
\* Most series a generated payload holds.
MaxSeries == 2

\* ------------------------------------------------------ Python values
PyVal(tag, chars, items) == [t |-> tag, k |-> "", s |-> chars, items |-> items]
PyNone == PyVal("null", <<>>, <<>>)
PyStr(chars) == PyVal("str", chars, <<>>)
PyNum(repr) == PyVal("num", repr, <<>>)
PyList(items) == PyVal("list", <<>>, items)
PyDict(pairs) == PyVal("dict", <<>>, pairs)
KV(key, val) == [val EXCEPT !.k = key]

\* Result of evaluating an expression: a value, or the exception it raises.
Ok(val) == [exc |-> "none", val |-> val]
Raise(name) == [exc |-> name, val |-> PyNone]

\* `not x`: None, empty str/list/dict and the number 0 are falsy.
PyNot(x) ==
  CASE x.t = "null" -> TRUE
    [] x.t = "num"  -> x.s \in {<<"0">>, <<"0", ".", "0">>}
    [] x.t = "str"  -> Len(x.s) = 0
    [] OTHER        -> Len(x.items) = 0

\* x[name] with a string subscript (api_data['data']).
GetKey(x, name) ==
  IF x.t = "dict"
  THEN IF \E n \in 1..Len(x.items) : x.items[n].k = name
       THEN Ok([x.items[CHOOSE n \in 1..Len(x.items) : x.items[n].k = name]
                  EXCEPT !.k = ""])
       ELSE Raise("KeyError")
  ELSE Raise("TypeError")

\* x[idx] with an integer subscript, idx >= 0 (log_entry[0], log_entry[1]).
GetIndex(x, idx) ==
  CASE x.t = "list" -> IF idx < Len(x.items) THEN Ok(x.items[idx + 1])
                                             ELSE Raise("IndexError")
    [] x.t = "str"  -> IF idx < Len(x.s) THEN Ok(PyStr(<<x.s[idx + 1]>>))
                                         ELSE Raise("IndexError")
    [] x.t = "dict" -> Raise("KeyError")
    [] OTHER        -> Raise("TypeError")

\* len(x).
PyLen(x) ==
  CASE x.t \in {"list", "dict"} -> Ok(Len(x.items))
    [] x.t = "str" -> Ok(Len(x.s))
    [] OTHER       -> Raise("TypeError")

\* The items `for e in x` visits: list items, str characters; None and numbers
\* are not iterable. (No payload of the model iterates a dict.)
PyIter(x) ==
  CASE x.t = "list" -> Ok(x.items)
    [] x.t = "str"  -> Ok([n \in 1..Len(x.s) |-> PyStr(<<x.s[n]>>)])
    [] x.t \in {"null", "num"} -> Raise("TypeError")

\* ------------------------------------------------- strptime("%Y-%m-%d")
Digits == {"0", "1", "2", "3", "4", "5", "6", "7", "8", "9"}
DigitVal(c) ==
  CASE c = "0" -> 0 [] c = "1" -> 1 [] c = "2" -> 2 [] c = "3" -> 3 [] c = "4" -> 4
    [] c = "5" -> 5 [] c = "6" -> 6 [] c = "7" -> 7 [] c = "8" -> 8 [] c = "9" -> 9

AllDigits(s) == Len(s) > 0 /\ \A n \in 1..Len(s) : s[n] \in Digits

RECURSIVE NumVal(_)
NumVal(s) == IF Len(s) = 0 THEN 0 ELSE 10 * NumVal(SubSeq(s, 1, Len(s) - 1)) + DigitVal(s[Len(s)])

IsLeap(y) == (y % 4 = 0 /\ y % 100 # 0) \/ y % 400 = 0
DaysInMonth(y, m) ==
  CASE m \in {4, 6, 9, 11} -> 30
    [] m = 2 -> IF IsLeap(y) THEN 29 ELSE 28
    [] OTHER -> 31

\* Days from 1970-01-01 to the proleptic Gregorian date y-m-d.
DaysFromCivil(y, m, d) ==
  LET yy  == IF m <= 2 THEN y - 1 ELSE y
      era == yy \div 400
      yoe == yy - era * 400
      mp  == IF m > 2 THEN m - 3 ELSE m + 9
      doy == (153 * mp + 2) \div 5 + d - 1
      doe == yoe * 365 + yoe \div 4 - yoe \div 100 + doy
  IN  era * 146097 + doe - 719468

\* datetime.strptime(date_str, "%Y-%m-%d"): four year digits, a month 1..12 and a
\* day 1..31 of one or two digits, a day the month has; ValueError otherwise,
\* TypeError when date_str is no str.
Strptime(date_str) ==
  IF date_str.t # "str" THEN Raise("TypeError")
  ELSE
    LET s == date_str.s
        dashes == {n \in 1..Len(s) : s[n] = "-"}
    IN  IF Cardinality(dashes) # 2 THEN Raise("ValueError")
        ELSE
          LET d1 == CHOOSE n \in dashes : \A o \in dashes : n <= o
              d2 == CHOOSE n \in dashes : \A o \in dashes : n >= o
              ys == SubSeq(s, 1, d1 - 1)
              ms == SubSeq(s, d1 + 1, d2 - 1)
              ds == SubSeq(s, d2 + 1, Len(s))
          IN  IF /\ Len(ys) = 4 /\ AllDigits(ys) /\ NumVal(ys) >= 1
                 /\ Len(ms) \in {1, 2} /\ AllDigits(ms) /\ NumVal(ms) \in 1..12
                 /\ Len(ds) \in {1, 2} /\ AllDigits(ds) /\ NumVal(ds) \in 1..31
                 /\ NumVal(ds) <= DaysInMonth(NumVal(ys), NumVal(ms))
              THEN Ok([y |-> NumVal(ys), m |-> NumVal(ms), d |-> NumVal(ds)])
              ELSE Raise("ValueError")

\* int(dt.replace(tzinfo=utc).timestamp() * 1000) for a midnight date on or after
\* 1970-01-01, as limbs <<hi, lo>> of hi * 10^6 + lo.
TimestampMs(dt) ==
  LET sec == DaysFromCivil(dt.y, dt.m, dt.d) * 86400
  IN  <<sec \div 1000, (sec % 1000) * 1000>>

\* ------------------------------------------------ decimal.Decimal(str(x))
\* str(value) for the value types a parsed JSON document holds.
PyStrOf(x) ==
  CASE x.t \in {"str", "num"} -> x.s
    [] x.t = "null" -> <<"N", "o", "n", "e">>
    [] x.t = "list" -> <<"[", "]">>
    [] OTHER        -> <<"{", "}">>

\* decimal.Decimal(s) for s of the form [sign] digits [. digits] (the payloads hold
\* no exponent, NaN or Infinity spelling): the value is kept as Python keeps it,
\* sign, integer coefficient and exponent, so "1.0" (10, -1) is not "1" (1, 0).
\* Anything else raises decimal.InvalidOperation, an ArithmeticError.
DecimalOf(s) ==
  LET neg  == Len(s) > 0 /\ s[1] = "-"
      body == IF Len(s) > 0 /\ s[1] \in {"-", "+"} THEN SubSeq(s, 2, Len(s)) ELSE s
      dots == {n \in 1..Len(body) : body[n] = "."}
      ip   == IF dots = {} THEN body ELSE SubSeq(body, 1, (CHOOSE n \in dots : TRUE) - 1)
      fp   == IF dots = {} THEN <<>> ELSE SubSeq(body, (CHOOSE n \in dots : TRUE) + 1, Len(body))
  IN  IF /\ Cardinality(dots) <= 1
         /\ Len(ip) + Len(fp) > 0
         /\ \A n \in 1..Len(ip) : ip[n] \in Digits
         /\ \A n \in 1..Len(fp) : fp[n] \in Digits
      THEN Ok([sign |-> IF neg THEN 1 ELSE 0, coef |-> NumVal(ip \o fp), exp |-> 0 - Len(fp)])
      ELSE Raise("InvalidOperation")

\* ------------------------------------------------------------- inputs
Date0101 == <<"2", "0", "2", "4", "-", "0", "1", "-", "0", "1">>
Date0102 == <<"2", "0", "2", "4", "-", "0", "1", "-", "0", "2">>
BadDate  == <<"b", "a", "d", "-", "d", "a", "t", "e">>

\* ["2024-01-01", 4.5]
EntryA == PyList(<<PyStr(Date0101), PyNum(<<"4", ".", "5">>)>>)
\* ["2024-01-01", 3.1]: the date of EntryA with another value
EntryB == PyList(<<PyStr(Date0101), PyNum(<<"3", ".", "1">>)>>)
\* ["2024-01-02", null]
EntryNull == PyList(<<PyStr(Date0102), PyNone>>)
\* ["bad-date", 1.0]
EntryBadDate == PyList(<<PyStr(BadDate), PyNum(<<"1", ".", "0">>)>>)
\* ["2024-01-02", "abc"]
EntryBadValue == PyList(<<PyStr(Date0102), PyStr(<<"a", "b", "c">>)>>)
\* ["2024-01-02"]
EntryShort == PyList(<<PyStr(Date0102)>>)

\* {}: an entry that is an object, not a sequence
EntryDict == PyDict(<<>>)

Entries ==
  {EntryA, EntryB, EntryNull, EntryBadDate, EntryBadValue, EntryShort, EntryDict}

RECURSIVE SumTo(_, _)
SumTo(lens, k) == IF k = 0 THEN 0 ELSE SumTo(lens, k - 1) + lens[k]

\* The series list whose k-th series holds lens[k] consecutive entries of flat.
Carve(lens, flat) ==
  [k \in 1..Len(lens) |->
     PyList(SubSeq(flat, SumTo(lens, k - 1) + 1, SumTo(lens, k)))]

\* Every list of at most MaxSeries series holding at most MaxPoints entries in all.
SeriesLists ==
  UNION { UNION { { Carve(lens, flat) : flat \in [1..SumTo(lens, s) -> Entries] } :
                  lens \in {l \in [1..s -> 0..MaxPoints] : SumTo(l, s) <= MaxPoints} } :
          s \in 0..MaxSeries }

\* {"data": {"c:115044": {"series": <series>}}}
Payload(series) ==
  PyDict(<<KV("data", PyDict(<<KV("c:115044", PyDict(<<KV("series", series)>>))>>))>>)

\* [[["2024-01-01", 4.5], ["2024-01-02", null]], [["2024-01-01", 3.1]]]
ExampleSeries == <<PyList(<<EntryA, EntryNull>>), PyList(<<EntryB>>)>>

\* Documents whose path leads to a list of lists of entries.
WellShapedPayloads == { Payload(PyList(sl)) : sl \in SeriesLists \cup {ExampleSeries} }

\* Documents whose path leads to a list in which a series is null.
NullSeriesPayloads ==
  { Payload(PyList(<<PyNone>>)), Payload(PyList(<<PyList(<<EntryA>>), PyNone>>)) }

\* Parsed documents in which the path data -> "c:115044" -> series leads to no list.
MisshapenPayloads ==
  { PyDict(<<KV("error", PyStr(<<"x">>))>>),                     \* no "data"
    PyDict(<<KV("data", PyNone)>>),                              \* "data": null
    PyDict(<<KV("data", PyDict(<<>>))>>),                        \* no "c:115044"
    PyDict(<<KV("data", PyDict(<<KV("c:115044", PyDict(<<>>))>>))>>),  \* no "series"
    Payload(PyNone),                                             \* "series": null
    Payload(PyNum(<<"5">>)) }                                    \* "series": 5

\* What response.json() can return for a 2xx response with a JSON body.
JsonBodies ==
  WellShapedPayloads \cup NullSeriesPayloads \cup MisshapenPayloads
    \cup {PyDict(<<>>), PyNone}

\* What page.evaluate("() => window.App.stk") can hand back.
TokenReads == {PyNone, PyStr(<<>>), PyStr(<<"s", "t", "k">>)}
\* What context.cookies() can hand back.
Cookie(name, value) == PyDict(<<KV("name", PyStr(name)), KV("value", PyStr(value))>>)
CookieJars == {PyList(<<>>), PyList(<<Cookie(<<"s", "i", "d">>, <<"1">>)>>)}

\* METRIC_IDS_STR.split(','): the configured ids, as the environment sets them.
MetricIdLists == {<<"M1">>, <<"M1", "M2">>}

\* A stored item; its key is (metricId, timestamp).
Item(metric, ts, dec) == [metricId |-> metric, timestamp |-> ts, value |-> dec]
\* What the table can hold before a run.
PriorStores ==
  { {}, {Item("M1", <<1704067, 200000>>, [sign |-> 0, coef |-> 99, exp |-> -1])} }

\* -------------------------------------------------------------- state
VARIABLES
  pc,                  \* main(): where it is
  report,              \* main(): the last line it printed about the run
  hpc,                 \* harvest_credentials(): where it is
  playwright_started,  \* the Playwright driver is running
  browser_open,        \* the browser process is running
  bearer_token,        \* harvest_credentials(): local bearer_token
  cookies,             \* harvest_credentials(): local cookies
  hret,                \* harvest_credentials(): the value of its return statement
  credentials,         \* main(): bearer_token, cookies
  request,             \* the GET requests sent: their headers
  api_data,            \* main(): api_data
  METRIC_IDS,          \* module global METRIC_IDS
  store,               \* the DynamoDB table: a set of items, one per key
  s3pc,                \* process_and_store_data(): where it is
  list_of_series_data, \* process_and_store_data(): list_of_series_data
  i,                   \* index of the series at hand
  series_raw_data,     \* the items of the series at hand
  j,                   \* index of the entry at hand
  current_metric_id,
  points_processed_for_metric,
  total_items_written,
  queued,              \* the batch writer's put_item calls, in order
  pending,             \* the exception unwinding through the with block
  log,                 \* diagnostics process_and_store_data printed
  reported,            \* <<n>> once "Total items written: n" is printed
  origin,              \* history: origin[k] = <<i, j>> of the entry behind queued[k]
  skipped,             \* history: <<i, j>> of entries skipped with a diagnostic
  visited,             \* history: <<i, j>> of entries the loop has handled
  raisedAt,            \* history: <<i, j>> of the entry whose exception escaped
  store0,              \* history: the table when process_and_store_data was entered
  runs                 \* history: 1 in the first call of process_and_store_data, else 2

mvars == <<pc, report, credentials, request, api_data>>
hvars == <<hpc, playwright_started, browser_open, bearer_token, cookies, hret>>
s3locals == <<list_of_series_data, i, series_raw_data, j, current_metric_id,
              points_processed_for_metric, total_items_written, queued, pending,
              log, reported, origin, skipped, visited, raisedAt>>
s3vars == <<s3pc, s3locals, store, store0, runs>>
vars == <<mvars, hvars, s3vars, METRIC_IDS>>

Stage3Fresh ==
  /\ list_of_series_data = PyNone /\ i = 0 /\ series_raw_data = <<>> /\ j = 0
  /\ current_metric_id = "" /\ points_processed_for_metric = 0
  /\ total_items_written = 0 /\ queued = <<>> /\ pending = "none"
  /\ log = {} /\ reported = <<>> /\ origin = <<>> /\ skipped = {}
  /\ visited = {} /\ raisedAt = <<>>

\* The process as asyncio.run(main()) starts it: nothing launched, the configuration
\* read, the table as earlier runs left it.
Init ==
  /\ pc = "harvest" /\ report = "none"
  /\ hpc = "start" /\ playwright_started = FALSE /\ browser_open = FALSE
  /\ bearer_token = PyNone /\ cookies = PyList(<<>>) /\ hret = <<>>
  /\ credentials = <<>> /\ request = <<>> /\ api_data = PyNone
  /\ METRIC_IDS \in MetricIdLists
  /\ store \in PriorStores /\ store0 = store /\ runs = 1
  /\ s3pc = "idle" /\ Stage3Fresh

\* ------------------------------------------------ harvest_credentials
\* An awaited Playwright call made before the try block: it returns, or raises and
\* the exception leaves harvest_credentials, main and asyncio.run.
Unguarded(from, to) ==
  /\ pc = "harvest" /\ hpc = from
  /\ \E ok \in BOOLEAN :
       IF ok THEN hpc' = to /\ pc' = pc
             ELSE hpc' = "raised" /\ pc' = "crashed"

StartPlaywright ==
  /\ pc = "harvest" /\ hpc = "start"
  /\ \E ok \in BOOLEAN :
       IF ok THEN hpc' = "launch" /\ pc' = pc /\ playwright_started' = TRUE
             ELSE hpc' = "raised" /\ pc' = "crashed" /\ playwright_started' = FALSE
  /\ UNCHANGED <<report, credentials, request, api_data, browser_open, bearer_token,
                 cookies, hret, s3vars, METRIC_IDS>>

LaunchBrowser ==
  /\ pc = "harvest" /\ hpc = "launch"
  /\ \E ok \in BOOLEAN :
       IF ok THEN hpc' = "new_context" /\ pc' = pc /\ browser_open' = TRUE
             ELSE hpc' = "raised" /\ pc' = "crashed" /\ browser_open' = FALSE
  /\ UNCHANGED <<report, credentials, request, api_data, playwright_started,
                 bearer_token, cookies, hret, s3vars, METRIC_IDS>>

NewContext ==
  /\ Unguarded("new_context", "new_page")
  /\ UNCHANGED <<report, credentials, request, api_data, playwright_started,
                 browser_open, bearer_token, cookies, hret, s3vars, METRIC_IDS>>

NewPage ==
  /\ Unguarded("new_page", "stealth")
  /\ UNCHANGED <<report, credentials, request, api_data, playwright_started,
                 browser_open, bearer_token, cookies, hret, s3vars, METRIC_IDS>>

\* stealth_async(page), then bearer_token = None, cookies = [] and the try is entered.
Stealth ==
  /\ Unguarded("stealth", "goto")
  /\ bearer_token' = PyNone /\ cookies' = PyList(<<>>)
  /\ UNCHANGED <<report, credentials, request, api_data, playwright_started,
                 browser_open, hret, s3vars, METRIC_IDS>>

\* Inside the try, an exception (a timeout among them) is caught by
\* `except Exception`, which returns (None, None); the finally block follows.
Caught == hret' = <<PyNone, PyNone>> /\ hpc' = "finally_close"

Goto ==
  /\ pc = "harvest" /\ hpc = "goto"
  /\ \E ok \in BOOLEAN : IF ok THEN hpc' = "wait" /\ hret' = hret ELSE Caught
  /\ UNCHANGED <<mvars, playwright_started, browser_open, bearer_token, cookies,
                 s3vars, METRIC_IDS>>

WaitForToken ==
  /\ pc = "harvest" /\ hpc = "wait"
  /\ \E ok \in BOOLEAN : IF ok THEN hpc' = "evaluate" /\ hret' = hret ELSE Caught
  /\ UNCHANGED <<mvars, playwright_started, browser_open, bearer_token, cookies,
                 s3vars, METRIC_IDS>>

EvaluateToken ==
  /\ pc = "harvest" /\ hpc = "evaluate"
  /\ \/ \E tok \in TokenReads :
          bearer_token' = tok /\ hpc' = "cookies" /\ hret' = hret
     \/ bearer_token' = bearer_token /\ Caught
  /\ UNCHANGED <<mvars, playwright_started, browser_open, cookies, s3vars, METRIC_IDS>>

ReadCookies ==
  /\ pc = "harvest" /\ hpc = "cookies"
  /\ \/ \E jar \in CookieJars : cookies' = jar /\ hpc' = "check" /\ hret' = hret
     \/ cookies' = cookies /\ Caught
  /\ UNCHANGED <<mvars, playwright_started, browser_open, bearer_token, s3vars,
                 METRIC_IDS>>

\* The test with its cookie half left out.
CredentialsMissing_TokenOnly(token, jar) == PyNot(token)

\* if not bearer_token or not cookies
CredentialsMissing(token, jar) == PyNot(token) \/ PyNot(jar)

CheckCredentials ==
  /\ pc = "harvest" /\ hpc = "check"
  /\ IF CredentialsMissing(bearer_token, cookies)
     THEN Caught
     ELSE hret' = <<bearer_token, cookies>> /\ hpc' = "finally_close"
  /\ UNCHANGED <<mvars, playwright_started, browser_open, bearer_token, cookies,
                 s3vars, METRIC_IDS>>

\* finally: await browser.close()
CloseBrowser ==
  /\ pc = "harvest" /\ hpc = "finally_close"
  /\ browser_open' = FALSE /\ hpc' = "finally_stop"
  /\ UNCHANGED <<mvars, playwright_started, bearer_token, cookies, hret, s3vars,
                 METRIC_IDS>>

\* finally: await playwright.stop(); the pending return value reaches main.
StopPlaywright ==
  /\ pc = "harvest" /\ hpc = "finally_stop"
  /\ playwright_started' = FALSE /\ hpc' = "returned"
  /\ credentials' = hret /\ pc' = "check_credentials"
  /\ UNCHANGED <<report, request, api_data, browser_open, bearer_token, cookies, hret,
                 s3vars, METRIC_IDS>>

\* ---------------------------------------------------------------- main
\* if not bearer_token  (main, after stage 1)
NoCredentials(creds) == PyNot(creds[1])

MainCheckCredentials ==
  /\ pc = "check_credentials"
  /\ IF NoCredentials(credentials)
     THEN report' = "cannot continue without credentials" /\ pc' = "done"
     ELSE report' = report /\ pc' = "fetch"
  /\ UNCHANGED <<credentials, request, api_data, hvars, s3vars, METRIC_IDS>>

\* "; ".join(name=value ...) as the list of its name=value pieces.
CookieString(jar) ==
  [n \in 1..Len(jar.items) |->
     <<GetKey(jar.items[n], "name").val.s, GetKey(jar.items[n], "value").val.s>>]

Headers(token, jar) ==
  [Authorization |-> <<"Bearer", token.s>>, Cookie |-> CookieString(jar)]

\* fetch_data_with_credentials: one GET; a transport error, a non-2xx status
\* (raise_for_status) and a body that is no JSON are caught and give None.
Fetch ==
  /\ pc = "fetch"
  /\ request' = Append(request, Headers(credentials[1], credentials[2]))
  /\ \E outcome \in {"ok", "transport_error", "http_error", "bad_json"} :
       IF outcome = "ok"
       THEN \E body \in JsonBodies : api_data' = body
       ELSE api_data' = PyNone
  /\ pc' = "check_api_data"
  /\ UNCHANGED <<report, credentials, hvars, s3vars, METRIC_IDS>>

\* main going on whatever the fetch returned.
ApiDataMissing_Never(data) == FALSE

\* if not api_data
ApiDataMissing(data) == PyNot(data)

MainCheckApiData ==
  /\ pc = "check_api_data"
  /\ IF ApiDataMissing(api_data)
     THEN report' = "cannot continue without API data" /\ pc' = "done" /\ s3pc' = s3pc
     ELSE report' = report /\ pc' = "stage3" /\ s3pc' = "path"
  /\ UNCHANGED <<credentials, request, api_data, hvars, s3locals, store, store0, runs,
                 METRIC_IDS>>

\* process_and_store_data has returned: main prints its last line; or it has
\* raised, and the exception leaves main.
MainAfterStage3 ==
  /\ pc = "stage3" /\ s3pc \in {"returned", "raised"}
  /\ IF s3pc = "returned"
     THEN report' = "Script finished successfully." /\ pc' = "done"
     ELSE report' = report /\ pc' = "crashed"
  /\ UNCHANGED <<credentials, request, api_data, hvars, s3vars, METRIC_IDS>>

\* ---------------------------------------------- process_and_store_data
\* api_data['data']['c:115044']['series']
SeriesPath(data) ==
  LET a == GetKey(data, "data")
      b == IF a.exc = "none" THEN GetKey(a.val, "c:115044") ELSE a
      c == IF b.exc = "none" THEN GetKey(b.val, "series") ELSE b
  IN  c

S3Path ==
  /\ s3pc = "path"
  /\ LET r == SeriesPath(api_data)
     IN  IF r.exc \in {"KeyError", "TypeError"}
         THEN /\ log' = log \cup {"ERROR: series not found"}
              /\ s3pc' = "returned"
              /\ list_of_series_data' = list_of_series_data
         ELSE /\ log' = log
              /\ s3pc' = "len_check"
              /\ list_of_series_data' = r.val
  /\ UNCHANGED <<mvars, hvars, METRIC_IDS, store, store0, runs, i, series_raw_data, j,
                 current_metric_id, points_processed_for_metric, total_items_written,
                 queued, pending, reported, origin, skipped, visited, raisedAt>>

\* len(list_of_series_data) != len(METRIC_IDS); total_items_written = 0; the with
\* block is entered. len() of a value with no length raises TypeError, uncaught.
S3LenCheck ==
  /\ s3pc = "len_check"
  /\ LET n == PyLen(list_of_series_data)
     IN  IF n.exc # "none"
         THEN /\ s3pc' = "raised" /\ pending' = n.exc /\ log' = log
         ELSE /\ s3pc' = "series_loop" /\ pending' = pending
              /\ log' = IF n.val # Len(METRIC_IDS) THEN log \cup {"WARNING: mismatch"}
                                                    ELSE log
  /\ total_items_written' = 0 /\ i' = 0
  /\ UNCHANGED <<mvars, hvars, METRIC_IDS, store, store0, runs, list_of_series_data,
                 series_raw_data, j, current_metric_id, points_processed_for_metric,
                 queued, reported, origin, skipped, visited, raisedAt>>

\* Every series given the first id.
MetricIdAt_First(ids, idx) == ids[1]

\* current_metric_id = METRIC_IDS[i]
MetricIdAt(ids, idx) == ids[idx + 1]

\* for i, series_raw_data in enumerate(list_of_series_data): the next series, the
\* break at i >= len(METRIC_IDS), or the end of the loop.
S3NextSeries ==
  /\ s3pc = "series_loop"
  /\ LET all == PyIter(list_of_series_data).val
     IN  IF i >= Len(all)
         THEN /\ s3pc' = "exit_batch"
              /\ UNCHANGED <<log, current_metric_id, points_processed_for_metric,
                             series_raw_data, j, pending, raisedAt>>
         ELSE IF i >= Len(METRIC_IDS)
         THEN /\ log' = log \cup {"Skipping extra data series"}
              /\ s3pc' = "exit_batch"
              /\ UNCHANGED <<current_metric_id, points_processed_for_metric,
                             series_raw_data, j, pending, raisedAt>>
         ELSE LET it == PyIter(all[i + 1])
              IN  /\ current_metric_id' = MetricIdAt(METRIC_IDS, i)
                  /\ points_processed_for_metric' = 0
                  /\ log' = log
                  /\ IF it.exc # "none"
                     THEN /\ pending' = it.exc /\ raisedAt' = <<i>>
                          /\ s3pc' = "exit_batch"
                          /\ UNCHANGED <<series_raw_data, j>>
                     ELSE /\ series_raw_data' = it.val /\ j' = 0
                          /\ s3pc' = "entry_loop"
                          /\ UNCHANGED <<pending, raisedAt>>
  /\ UNCHANGED <<mvars, hvars, METRIC_IDS, store, store0, runs, list_of_series_data, i,
                 total_items_written, queued, reported, origin, skipped, visited>>

\* The exceptions the per-entry `except (ValueError, TypeError, IndexError)` catches.
CaughtPerEntry == {"ValueError", "TypeError", "IndexError"}

\* The null check left out.
IsNone_Never(value) == FALSE

\* value is None
IsNone(value) == value.t = "null"

\* The body of the per-entry try for one log_entry: "continue" (null value), "put"
\* (an item is queued), "skip" (a caught exception, with a diagnostic) or "raise"
\* (an exception the except clause does not name).
EntryOutcome(log_entry) ==
  LET none == [kind |-> "continue", exc |-> "none", ts |-> <<0, 0>>,
               value |-> [sign |-> 0, coef |-> 0, exp |-> 0]]
      fail(e) == [none EXCEPT !.kind = IF e \in CaughtPerEntry THEN "skip" ELSE "raise",
                              !.exc = e]
      date_str == GetIndex(log_entry, 0)
      value    == GetIndex(log_entry, 1)
  IN  IF date_str.exc # "none" THEN fail(date_str.exc)
      ELSE IF value.exc # "none" THEN fail(value.exc)
      ELSE IF IsNone(value.val) THEN none
      ELSE LET dt_object == Strptime(date_str.val)
           IN  IF dt_object.exc # "none" THEN fail(dt_object.exc)
               ELSE LET value_decimal == DecimalOf(PyStrOf(value.val))
                    IN  IF value_decimal.exc # "none" THEN fail(value_decimal.exc)
                        ELSE [none EXCEPT !.kind = "put",
                                          !.ts = TimestampMs(dt_object.val),
                                          !.value = value_decimal.val]

\* for log_entry in series_raw_data: one entry, or the end of the series
\* (total_items_written += points_processed_for_metric).
S3NextEntry ==
  /\ s3pc = "entry_loop"
  /\ IF j >= Len(series_raw_data)
     THEN /\ total_items_written' = total_items_written + points_processed_for_metric
          /\ i' = i + 1 /\ s3pc' = "series_loop"
          /\ UNCHANGED <<j, points_processed_for_metric, queued, pending, origin,
                         skipped, visited, raisedAt>>
     ELSE LET o == EntryOutcome(series_raw_data[j + 1])
          IN  /\ visited' = visited \cup {<<i, j>>}
              /\ queued' = IF o.kind = "put"
                            THEN Append(queued, Item(current_metric_id, o.ts, o.value))
                            ELSE queued
              /\ origin' = IF o.kind = "put" THEN Append(origin, <<i, j>>) ELSE origin
              /\ points_processed_for_metric' =
                   IF o.kind = "put" THEN points_processed_for_metric + 1
                                     ELSE points_processed_for_metric
              /\ skipped' = IF o.kind = "skip" THEN skipped \cup {<<i, j>>} ELSE skipped
              /\ pending' = IF o.kind = "raise" THEN o.exc ELSE pending
              /\ raisedAt' = IF o.kind = "raise" THEN <<i, j>> ELSE raisedAt
              /\ s3pc' = IF o.kind = "raise" THEN "exit_batch" ELSE "entry_loop"
              /\ j' = j + 1
              /\ UNCHANGED <<i, total_items_written>>
  /\ UNCHANGED <<mvars, hvars, METRIC_IDS, store, store0, runs, list_of_series_data,
                 series_raw_data, current_metric_id, log, reported>>

\* A write that adds the item and replaces none.
Upsert_Insert(table, item) == table \cup {item}

\* put_item on a table keyed by (metricId, timestamp): the item replaces the one
\* with its key.
Upsert(table, item) ==
  {r \in table : ~(r.metricId = item.metricId /\ r.timestamp = item.timestamp)}
    \cup {item}

RECURSIVE ApplyAll(_, _)
ApplyAll(table, items) ==
  IF Len(items) = 0 THEN table
  ELSE ApplyAll(Upsert(table, items[1]), SubSeq(items, 2, Len(items)))

\* The with block is left, normally or by an exception: the batch writer sends
\* what was queued. After a normal exit the total is printed and the function
\* returns; otherwise the exception goes on to the caller.
S3ExitBatch ==
  /\ s3pc = "exit_batch"
  /\ store' = ApplyAll(store, queued)
  /\ IF pending = "none"
     THEN reported' = <<total_items_written>> /\ s3pc' = "returned"
     ELSE reported' = reported /\ s3pc' = "raised"
  /\ UNCHANGED <<mvars, hvars, METRIC_IDS, store0, runs, list_of_series_data, i,
                 series_raw_data, j, current_metric_id, points_processed_for_metric,
                 total_items_written, queued, pending, log, origin, skipped, visited,
                 raisedAt>>

Stage3Next == S3Path \/ S3LenCheck \/ S3NextSeries \/ S3NextEntry \/ S3ExitBatch

Next ==
  \/ StartPlaywright \/ LaunchBrowser \/ NewContext \/ NewPage \/ Stealth
  \/ Goto \/ WaitForToken \/ EvaluateToken \/ ReadCookies \/ CheckCredentials
  \/ CloseBrowser \/ StopPlaywright
  \/ MainCheckCredentials \/ Fetch \/ MainCheckApiData \/ MainAfterStage3
  \/ Stage3Next

Spec == Init /\ [][Next]_vars

\* ------------------------------------- process_and_store_data, called again
\* process_and_store_data(api_data) entered with any parsed, truthy document, any
\* configured ids and any prior table.
InitStage3 ==
  /\ pc = "caller" /\ report = "none"
  /\ hpc = "returned" /\ playwright_started = FALSE /\ browser_open = FALSE
  /\ bearer_token = PyNone /\ cookies = PyList(<<>>) /\ hret = <<>>
  /\ credentials = <<>> /\ request = <<>>
  /\ api_data \in WellShapedPayloads \cup NullSeriesPayloads \cup MisshapenPayloads
  /\ METRIC_IDS \in MetricIdLists
  /\ store \in PriorStores /\ store0 = store /\ runs = 1
  /\ s3pc = "path" /\ Stage3Fresh

\* The function has ended and is called again with the same api_data, on the
\* table as the call before left it.
CallAgain ==
  /\ pc = "caller" /\ s3pc \in {"returned", "raised"}
  /\ s3pc' = "path" /\ store0' = store /\ runs' = 2
  /\ list_of_series_data' = PyNone /\ i' = 0 /\ series_raw_data' = <<>> /\ j' = 0
  /\ current_metric_id' = "" /\ points_processed_for_metric' = 0
  /\ total_items_written' = 0 /\ queued' = <<>> /\ pending' = "none"
  /\ log' = {} /\ reported' = <<>> /\ origin' = <<>> /\ skipped' = {}
  /\ visited' = {} /\ raisedAt' = <<>>
  /\ UNCHANGED <<mvars, hvars, METRIC_IDS, store>>

NextStage3 == Stage3Next \/ CallAgain

SpecStage3 == InitStage3 /\ [][NextStage3]_vars

\* ============================================================== claims
\* What the claims say of the inputs, stated on the inputs themselves.
Stage3Ended == s3pc \in {"returned", "raised"}
WellShaped == api_data \in WellShapedPayloads
\* The series list of a document whose path leads to one.
SeriesOf(data) == data.items[1].items[1].items[1].items
Min(a, b) == IF a < b THEN a ELSE b
\* The <<i, j>> (from 0) of the entries of the series that have a metric id.
MappedPairs ==
  LET sl == SeriesOf(api_data)
  IN  UNION { { <<a - 1, b - 1>> : b \in 1..Len(sl[a].items) } :
              a \in 1..Min(Len(sl), Len(METRIC_IDS)) }
EntryAt(p) == SeriesOf(api_data)[p[1] + 1].items[p[2] + 1]
\* A well-formed pair with a value, a pair with a null value, anything else.
WellFormedPair(e) == e \in {EntryA, EntryB}
NullPair(e) == e = EntryNull
Malformed(e) == e \in {EntryBadDate, EntryBadValue, EntryShort, EntryDict}
\* The record a well-formed pair stands for: 2024-01-01 is 1704067200000 ms.
RecordOf(metric, e) ==
  Item(metric, <<1704067, 200000>>,
       [sign |-> 0, coef |-> IF e = EntryA THEN 45 ELSE 31, exp |-> -1])
Range(f) == {f[k] : k \in DOMAIN f}

\* C1: at every end of the run, by return or by exception, the browser is closed.
C1_BrowserClosedOnEveryExit ==
  pc \in {"done", "crashed"} => ~browser_open

\* C2: the GET is sent only after the harvester returned a bundle; stage 3 starts
\* only after the fetch returned a payload; after a failed harvest or a failed
\* fetch no later stage starts and nothing is written.
C2_StagesGated ==
  /\ request # <<>> =>
       /\ hpc = "returned" /\ hret = credentials
       /\ credentials[1].t = "str" /\ credentials[1].s # <<>>
       /\ Len(request) = 1 /\ request[1].Authorization = <<"Bearer", credentials[1].s>>
  /\ s3pc # "idle" =>
       /\ Len(request) = 1 /\ pc \in {"stage3", "done", "crashed"}
       /\ api_data \in JsonBodies \ {PyNone}
  /\ (hpc = "raised" \/ credentials = <<PyNone, PyNone>>) =>
       /\ request = <<>> /\ s3pc = "idle" /\ queued = <<>> /\ store = store0
       /\ pc \in {"check_credentials", "done", "crashed"}
  /\ (request # <<>> /\ pc # "fetch" /\ api_data = PyNone) =>
       /\ s3pc = "idle" /\ queued = <<>> /\ store = store0
       /\ pc \in {"check_api_data", "done"}
C2_Witness ==
  /\ pc = "done" /\ Len(request) = 1 /\ api_data = PyNone
  /\ report = "cannot continue without API data"

\* C3: what harvest_credentials returns is (None, None) or a non-empty token with
\* a non-empty cookie list; every failure inside the try gives (None, None), and
\* the run then ends before stage 2.
C3_NoPartialBundle ==
  /\ hret # <<>> =>
       \/ hret = <<PyNone, PyNone>>
       \/ /\ hret[1].t = "str" /\ Len(hret[1].s) > 0
          /\ hret[2].t = "list" /\ Len(hret[2].items) > 0
  /\ ( /\ hpc \in {"finally_close", "finally_stop", "returned"}
       /\ (bearer_token \in {PyNone, PyStr(<<>>)} \/ cookies = PyList(<<>>)) )
       => hret = <<PyNone, PyNone>>
  /\ credentials = <<PyNone, PyNone>> =>
       /\ request = <<>> /\ pc \in {"check_credentials", "done"}
       /\ (pc = "done" => report = "cannot continue without credentials")
C3_Witness ==
  /\ pc = "done" /\ credentials = <<PyNone, PyNone>>
  /\ bearer_token = PyStr(<<"s", "t", "k">>) /\ cookies = PyList(<<>>)

\* C4: a malformed entry is skipped with a diagnostic and nothing else changes:
\* the stage returns, and every well-formed non-null entry of every mapped series
\* is queued.
C4_MalformedEntryContained ==
  (WellShaped /\ Stage3Ended) =>
    /\ s3pc = "returned"
    /\ \A p \in MappedPairs :
         /\ Malformed(EntryAt(p)) => p \in skipped
         /\ WellFormedPair(EntryAt(p)) => p \in Range(origin)

\* C5: a document whose path is absent or malformed makes the stage return
\* normally with the diagnostic and without a write; it never raises.
C5_ShapeFailureIsStructured ==
  api_data \in MisshapenPayloads =>
    /\ s3pc # "raised"
    /\ s3pc = "returned" =>
         /\ "ERROR: series not found" \in log /\ queued = <<>> /\ store = store0

\* C6: a pair with a null value is passed over: no put_item, no count, no
\* exception; every queued item comes from a pair with a value, and the table
\* holds only what it held before and what was queued.
C6_NullSkip ==
  /\ \A p \in visited :
       (WellShaped /\ NullPair(EntryAt(p))) =>
         /\ p \notin Range(origin) /\ p \notin skipped /\ raisedAt # p
  /\ \A k \in 1..Len(origin) : WellShaped => ~NullPair(EntryAt(origin[k]))
  /\ s3pc = "entry_loop" =>
       total_items_written + points_processed_for_metric = Len(queued)
  /\ s3pc = "series_loop" => total_items_written = Len(queued)
  /\ reported # <<>> => reported[1] = Len(queued)
  /\ store \subseteq store0 \cup Range(queued)
C6_Witness ==
  /\ s3pc = "returned" /\ WellShaped /\ Len(queued) > 0
  /\ \E p \in visited : NullPair(EntryAt(p))

\* C7: a record from series i carries METRIC_IDS[i] and only series below
\* min(n, m) are handled; n # m gives the warning, n > m the skip message, and
\* the stage then still returns after min(n, m) series: when it raises, an
\* entry or a series raised, not the count.
C7_PositionalMapping ==
  (s3pc \notin {"idle", "path", "len_check"} /\ api_data \notin MisshapenPayloads) =>
    LET n == Len(SeriesOf(api_data))
        m == Len(METRIC_IDS)
    IN  /\ \A k \in 1..Len(queued) :
             /\ origin[k][1] < Min(n, m)
             /\ queued[k].metricId = METRIC_IDS[origin[k][1] + 1]
        /\ \A p \in visited : p[1] < Min(n, m)
        /\ ("WARNING: mismatch" \in log) <=> (n # m)
        /\ s3pc = "returned" =>
             /\ i = Min(n, m)
             /\ ("Skipping extra data series" \in log) <=> (n > m)
             /\ WellShaped => visited = MappedPairs
        /\ s3pc = "raised" =>
             /\ raisedAt # <<>> /\ raisedAt[1] < Min(n, m)
             /\ (WellShaped => EntryAt(raisedAt) \in {EntryBadValue, EntryDict})
C7_Witness ==
  /\ s3pc = "returned" /\ WellShaped
  /\ Len(SeriesOf(api_data)) > Len(METRIC_IDS)
  /\ Len(queued) > 0 /\ "Skipping extra data series" \in log

\* Every order in which the queued items can be written.
Orders(items) ==
  { [k \in 1..Len(items) |-> items[f[k]]] :
      f \in {g \in [1..Len(items) -> 1..Len(items)] : \A a \in 1..Len(items) : \E b \in 1..Len(items) : g[b] = a} }
KeyOf(r) == <<r.metricId, r.timestamp>>
\* No two queued items share a key with different values.
NoConflict(items) ==
  \A a, b \in 1..Len(items) : KeyOf(items[a]) = KeyOf(items[b]) => items[a] = items[b]

C9_ExactOutput ==
  (WellShaped /\ Stage3Ended) =>
    LET want == {p \in MappedPairs : WellFormedPair(EntryAt(p))}
    IN  /\ Range(origin) = want /\ Len(origin) = Cardinality(want)
        /\ \A k \in 1..Len(queued) :
             queued[k] = RecordOf(METRIC_IDS[origin[k][1] + 1], EntryAt(origin[k]))
        /\ reported = <<Len(queued)>>

\* C10: the run ends with the success line only if no stage failed: not after
\* the stage-3 abort on the payload's shape.
C10_SuccessMeansNoStageFailed ==
  report = "Script finished successfully." =>
    /\ credentials[1].t = "str" /\ ~ (api_data = PyNone)
    /\ "ERROR: series not found" \notin log

====
